---- MODULE Spec2Model ----
(***************************************************************************)
(* A model of the TradingView indicator MCP servers of src/simple-mcp.ts:  *)
(* the two-tool server (lines 1-153) and the four-tool server (lines       *)
(* 154-530).  Text is a sequence of one-character strings; a file is the   *)
(* text readFileSync returns, or an unreadable entry.                      *)
(***************************************************************************)
EXTENDS Integers, Sequences, FiniteSets, TLC

VARIABLES server, dirOk, dir, disk, request, response

vars == <<server, dirOk, dir, disk, request, response>>

(***************************************************************************)
(* Characters and the string primitives of the JavaScript runtime.         *)
(***************************************************************************)
LowerSeq ==
  << "a", "b", "c", "d", "e", "f", "g", "h", "i", "j", "k", "l", "m",
     "n", "o", "p", "q", "r", "s", "t", "u", "v", "w", "x", "y", "z" >>

UpperSeq ==
  << "A", "B", "C", "D", "E", "F", "G", "H", "I", "J", "K", "L", "M",
     "N", "O", "P", "Q", "R", "S", "T", "U", "V", "W", "X", "Y", "Z" >>

Range(s) == { s[i] : i \in 1..Len(s) }

Lower == Range(LowerSeq)

Upper == Range(UpperSeq)

Digit == { "0", "1", "2", "3", "4", "5", "6", "7", "8", "9" }

\* \s of a regular expression and the characters String.prototype.trim strips
\* (the ASCII ones).
IsSpace(c) == c \in { " ", "\t", "\n", "\r", "\f" }

\* [a-zA-Z_]
IsIdStart(c) == c \in Lower \cup Upper \cup { "_" }

\* [a-zA-Z0-9_]
IsIdChar(c) == c \in Lower \cup Upper \cup Digit \cup { "_" }

ToLowerChar(c) ==
  IF c \in Upper
    THEN LowerSeq[CHOOSE i \in 1..Len(UpperSeq) : UpperSeq[i] = c]
    ELSE c

\* String.prototype.toLowerCase
ToLowerCase(s) == [ i \in 1..Len(s) |-> ToLowerChar(s[i]) ]

\* String.prototype.trim
Trim(s) ==
  LET keep == { i \in 1..Len(s) : ~IsSpace(s[i]) }
  IN  IF keep = {}
        THEN << >>
        ELSE LET lo == CHOOSE i \in keep : \A j \in keep : i <= j
                 hi == CHOOSE i \in keep : \A j \in keep : j <= i
             IN  SubSeq(s, lo, hi)

\* String.prototype.includes
Includes(s, t) ==
  \E i \in 0..(Len(s) - Len(t)) : SubSeq(s, i + 1, i + Len(t)) = t

\* String.prototype.startsWith
StartsWith(s, t) == Len(t) <= Len(s) /\ SubSeq(s, 1, Len(t)) = t

\* String.prototype.endsWith
EndsWith(s, t) ==
  Len(t) <= Len(s) /\ SubSeq(s, Len(s) - Len(t) + 1, Len(s)) = t

\* The positions of the character c in s, in increasing order.
Positions(s, c) ==
  LET IsAt(i) == s[i] = c
  IN  SelectSeq([ i \in 1..Len(s) |-> i ], IsAt)

\* String.prototype.split with a one-character separator: always at least
\* one piece, and a trailing separator yields a trailing empty piece.
Split(s, c) ==
  LET at == Positions(s, c)
      n  == Len(at)
  IN  [ k \in 1..(n + 1) |->
          SubSeq(s, IF k = 1 THEN 1 ELSE at[k - 1] + 1,
                    IF k = n + 1 THEN Len(s) ELSE at[k] - 1) ]

\* s.split(c)[0]: the text before the first c, or all of s.
BeforeFirst(s, c) == Split(s, c)[1]

RECURSIVE Join(_, _)
\* Array.prototype.join with a one-character separator.
Join(pieces, c) ==
  IF Len(pieces) = 0 THEN << >>
  ELSE IF Len(pieces) = 1 THEN pieces[1]
  ELSE LET half == Len(pieces) \div 2
       IN  Join(SubSeq(pieces, 1, half), c) \o << c >>
             \o Join(SubSeq(pieces, half + 1, Len(pieces)), c)

\* Array.prototype.slice(0, n)
SliceFirst(s, n) == SubSeq(s, 1, IF Len(s) < n THEN Len(s) ELSE n)

Min(a, b) == IF a < b THEN a ELSE b

(***************************************************************************)
(* The line patterns shared by both servers.                               *)
(***************************************************************************)
\* s, read from position from, is an identifier, then any whitespace, then
\* the character c:  [a-zA-Z_][a-zA-Z0-9_]*\s*c
IdThen(s, from, c) ==
  \E k \in from..Len(s) : \E m \in k..(Len(s) - 1) :
    /\ IsIdStart(s[from])
    /\ \A i \in (from + 1)..k : IsIdChar(s[i])
    /\ \A i \in (k + 1)..m : IsSpace(s[i])
    /\ s[m + 1] = c

\* /^[a-zA-Z_][a-zA-Z0-9_]*\s*\(/ with the whitespace run dropped.
MatchesFunctionNoSpace(trimmed) ==
  \E k \in 1..(Len(trimmed) - 1) :
    /\ IsIdStart(trimmed[1])
    /\ \A i \in 2..k : IsIdChar(trimmed[i])
    /\ trimmed[k + 1] = "("

\* trimmed.match(/^[a-zA-Z_][a-zA-Z0-9_]*\s*\(/)
MatchesFunction(trimmed) == IdThen(trimmed, 1, "(")

\* The length of the prefix /^var\s+/ matches (greedy), or 0 without a match.
VarPrefixLen(s) ==
  IF StartsWith(s, << "v", "a", "r" >>) /\ Len(s) >= 4 /\ IsSpace(s[4])
    THEN CHOOSE w \in 4..Len(s) :
           /\ \A i \in 4..w : IsSpace(s[i])
           /\ (w = Len(s) \/ ~IsSpace(s[w + 1]))
    ELSE 0

\* trimmed.match(/^(var\s+)?[a-zA-Z_][a-zA-Z0-9_]*\s*=/)
MatchesVariable(trimmed) ==
  \/ IdThen(trimmed, 1, "=")
  \/ /\ StartsWith(trimmed, << "v", "a", "r" >>)
     /\ \E w \in 4..Len(trimmed) :
          /\ \A i \in 4..w : IsSpace(trimmed[i])
          /\ IdThen(trimmed, w + 1, "=")

\* trimmed.replace(/^var\s+/, '').split('=')[0].trim()
VariableName(trimmed) ==
  Trim(BeforeFirst(SubSeq(trimmed, VarPrefixLen(trimmed) + 1, Len(trimmed)), "="))

\* trimmed.split('(')[0]
FunctionName(trimmed) == BeforeFirst(trimmed, "(")

PlotOpen == << "p", "l", "o", "t", "(" >>

PlotShapeOpen == << "p", "l", "o", "t", "s", "h", "a", "p", "e", "(" >>

PlotCharOpen == << "p", "l", "o", "t", "c", "h", "a", "r", "(" >>

InputOpen == << "i", "n", "p", "u", "t", "(" >>

InputDot == << "i", "n", "p", "u", "t", "." >>

AlertOpen == << "a", "l", "e", "r", "t", "(" >>

AlertConditionOpen ==
  << "a", "l", "e", "r", "t", "c", "o", "n", "d", "i", "t", "i", "o", "n", "(" >>

IsPlot(trimmed) ==
  \/ Includes(trimmed, PlotOpen)
  \/ Includes(trimmed, PlotShapeOpen)
  \/ Includes(trimmed, PlotCharOpen)

IsInput(trimmed) == Includes(trimmed, InputOpen) \/ Includes(trimmed, InputDot)

IsAlert(trimmed) ==
  Includes(trimmed, AlertOpen) \/ Includes(trimmed, AlertConditionOpen)

(***************************************************************************)
(* analyzeIndicatorCode (four-tool server).                                *)
(***************************************************************************)
MediumLines == 100

MediumFunctions == 10

HighLines == 300

HighFunctions == 20

HighPlots == 5

FunctionCap == 10

VariableCap == 15

PlotCap == 10

InputCap == 10

AlertCap == 5

\* The tier taken from the lengths of the lists that are returned.
ComplexityOfCapped(lineCount, functionCount, plotCount) ==
  LET f == Min(functionCount, FunctionCap)
      p == Min(plotCount, PlotCap)
  IN  IF lineCount > HighLines \/ f > HighFunctions \/ p > HighPlots
        THEN "High"
        ELSE IF lineCount > MediumLines \/ f > MediumFunctions
          THEN "Medium"
          ELSE "Low"

\* let complexity = 'Low'; if (...) complexity = 'Medium'; if (...) complexity = 'High'
Complexity(lineCount, functionCount, plotCount) ==
  LET c0 == "Low"
      c1 == IF lineCount > MediumLines \/ functionCount > MediumFunctions
              THEN "Medium" ELSE c0
  IN  IF \/ lineCount > HighLines
         \/ functionCount > HighFunctions
         \/ plotCount > HighPlots
        THEN "High" ELSE c1

\* The lists in full: each loop body pushes onto its list when its test holds.
TrimmedLines(content) ==
  LET lines == Split(content, "\n")
  IN  [ i \in 1..Len(lines) |-> Trim(lines[i]) ]

AllFunctions(content) ==
  LET hit == SelectSeq(TrimmedLines(content), MatchesFunction)
  IN  [ i \in 1..Len(hit) |-> FunctionName(hit[i]) ]

AllVariables(content) ==
  LET hit == SelectSeq(TrimmedLines(content), MatchesVariable)
  IN  [ i \in 1..Len(hit) |-> VariableName(hit[i]) ]

AllPlots(content) == SelectSeq(TrimmedLines(content), IsPlot)

AllInputs(content) == SelectSeq(TrimmedLines(content), IsInput)

AllAlerts(content) == SelectSeq(TrimmedLines(content), IsAlert)

\* Array.prototype.slice(-n): the last n.
SliceLast(s, n) == SubSeq(s, IF Len(s) < n THEN 1 ELSE Len(s) - n + 1, Len(s))

\* The report with the last matches kept instead of the first.
analyzeIndicatorCodeKeepLast(content) ==
  [ functions  |-> SliceLast(AllFunctions(content), FunctionCap),
    variables  |-> SliceLast(AllVariables(content), VariableCap),
    plots      |-> SliceLast(AllPlots(content), PlotCap),
    inputs     |-> SliceLast(AllInputs(content), InputCap),
    alerts     |-> SliceLast(AllAlerts(content), AlertCap),
    complexity |-> Complexity(Len(Split(content, "\n")),
                              Len(AllFunctions(content)),
                              Len(AllPlots(content))),
    lineCount  |-> Len(Split(content, "\n")) ]

analyzeIndicatorCode(content) ==
  [ functions  |-> SliceFirst(AllFunctions(content), FunctionCap),
    variables  |-> SliceFirst(AllVariables(content), VariableCap),
    plots      |-> SliceFirst(AllPlots(content), PlotCap),
    inputs     |-> SliceFirst(AllInputs(content), InputCap),
    alerts     |-> SliceFirst(AllAlerts(content), AlertCap),
    complexity |-> Complexity(Len(Split(content, "\n")),
                              Len(AllFunctions(content)),
                              Len(AllPlots(content))),
    lineCount  |-> Len(Split(content, "\n")) ]

(***************************************************************************)
(* The file system the servers read, and the values a request carries.     *)
(***************************************************************************)
\* A JavaScript value of a tool argument; "undefined" is an absent key.
Undefined == [ type |-> "undefined", str |-> << >>, bool |-> FALSE ]

NumberValue == [ type |-> "number", str |-> << >>, bool |-> FALSE ]

Str(s) == [ type |-> "string", str |-> s, bool |-> FALSE ]

Bool(b) == [ type |-> "boolean", str |-> << >>, bool |-> b ]

NoArgs ==
  [ isObject |-> FALSE, pattern |-> Undefined, indicatorName |-> Undefined,
    searchTerm |-> Undefined, caseInsensitive |-> Undefined ]

NoRequest == [ name |-> "", args |-> NoArgs ]

NoResponse == [ kind |-> "none" ]

\* A handler that returned: a text payload, flagged as an error or not.
\* body holds the values the text is rendered from.
Returned(tool, isError, body) ==
  [ kind |-> "returned", tool |-> tool, isError |-> isError, body |-> body ]

\* A handler whose promise rejected: the error left the handler.
Threw(tool, message) == [ kind |-> "thrown", tool |-> tool, message |-> message ]

\* readFileSync(filename, 'utf-8')
readFileSync(filename) ==
  IF filename \in DOMAIN disk /\ disk[filename].readable
    THEN [ ok |-> TRUE, text |-> disk[filename].text ]
    ELSE [ ok |-> FALSE, text |-> << >> ]

\* readIndicatorFile: rethrows a read failure as "Failed to read indicator file".
readIndicatorFile(filename) == readFileSync(filename)

ExcludedEndings ==
  { << ".", "j", "s" >>, << ".", "t", "s" >>, << ".", "j", "s", "o", "n" >>,
    << ".", "m", "d" >>, << ".", "r", "a", "r" >> }

ExcludedParts ==
  { << "p", "a", "c", "k", "a", "g", "e" >>,
    << "t", "s", "c", "o", "n", "f", "i", "g" >>,
    << "D", "o", "c", "k", "e", "r", "f", "i", "l", "e" >> }

\* The filter callback of the four-tool server's getIndicatorFiles.
KeepFile(file, pattern) ==
  IF \/ StartsWith(file, << "." >>)
     \/ \E part \in ExcludedParts : Includes(file, part)
     \/ \E ending \in ExcludedEndings : EndsWith(file, ending)
    THEN FALSE
    ELSE IF pattern.type = "string" /\ pattern.str # << >>
      THEN Includes(ToLowerCase(file), ToLowerCase(pattern.str))
      ELSE TRUE

\* The filter callback of the two-tool server's getIndicatorFiles.
KeepFileSimple(file, pattern) ==
  IF Includes(file, << "n", "o", "d", "e", "_", "m", "o", "d", "u", "l", "e", "s" >>)
    THEN FALSE
    ELSE KeepFile(file, pattern)

\* getIndicatorFiles of the four-tool server: a failing readdirSync is
\* rethrown as "Failed to read directory".
getIndicatorFiles(pattern) ==
  LET Keep(file) == KeepFile(file, pattern)
  IN  IF dirOk
        THEN [ ok |-> TRUE, files |-> SelectSeq(dir, Keep) ]
        ELSE [ ok |-> FALSE, files |-> << >> ]

\* getIndicatorFiles of the two-tool server: a failing readdirSync yields [].
getIndicatorFilesSimple(pattern) ==
  LET Keep(file) == KeepFileSimple(file, pattern)
  IN  IF dirOk THEN SelectSeq(dir, Keep) ELSE << >>

\* ListIndicatorsSchema.parse(args) succeeds
ParsesList(args) ==
  args.isObject /\ args.pattern.type \in { "string", "undefined" }

\* AnalyzeIndicatorSchema.parse(args), ExtractFunctionsSchema.parse(args)
ParsesIndicatorName(args) ==
  args.isObject /\ args.indicatorName.type = "string"

\* SearchIndicatorSchema.parse(args) succeeds
ParsesSearch(args) ==
  /\ args.isObject
  /\ args.searchTerm.type = "string"
  /\ args.caseInsensitive.type \in { "boolean", "undefined" }

\* z.boolean().default(true)
CaseInsensitiveOf(args) ==
  IF args.caseInsensitive.type = "undefined" THEN TRUE
  ELSE args.caseInsensitive.bool

(***************************************************************************)
(* search_indicators (four-tool server).                                   *)
(***************************************************************************)
MatchCap == 3

\* The term as it is compared: lowercased when caseInsensitive.
Normalised(text, caseInsensitive) ==
  IF caseInsensitive THEN ToLowerCase(text) ELSE text

\* lines.map(...).filter(...).slice(0, 3)
SearchMatches(content, searchTerm, caseInsensitive) ==
  LET lines   == Split(content, "\n")
      entries == [ i \in 1..Len(lines) |->
                     [ line |-> Trim(lines[i]), number |-> i ] ]
      term    == Normalised(searchTerm, caseInsensitive)
      Hit(e)  == Includes(Normalised(e.line, caseInsensitive), term)
  IN  SliceFirst(SelectSeq(entries, Hit), MatchCap)

\* searchContent.includes(term)
ContentHasTerm(content, searchTerm, caseInsensitive) ==
  Includes(Normalised(content, caseInsensitive),
           Normalised(searchTerm, caseInsensitive))

RECURSIVE SearchResultsAbortOnFailure(_, _, _)
\* The scan with a read failure ending the loop.
SearchResultsAbortOnFailure(indicators, searchTerm, caseInsensitive) ==
  IF indicators = << >> THEN << >>
  ELSE
    LET indicator == Head(indicators)
        read      == readIndicatorFile(indicator)
    IN  IF ~read.ok
          THEN << >>
          ELSE IF ContentHasTerm(read.text, searchTerm, caseInsensitive)
            THEN << [ file    |-> indicator,
                      matches |-> SearchMatches(read.text, searchTerm,
                                                caseInsensitive) ] >>
                 \o SearchResultsAbortOnFailure(Tail(indicators), searchTerm,
                                                caseInsensitive)
            ELSE SearchResultsAbortOnFailure(Tail(indicators), searchTerm,
                                             caseInsensitive)

RECURSIVE SearchResults(_, _, _)
\* for (const indicator of indicators) { try { ... } catch { continue; } }
SearchResults(indicators, searchTerm, caseInsensitive) ==
  IF indicators = << >> THEN << >>
  ELSE
    LET indicator == Head(indicators)
        read      == readIndicatorFile(indicator)
        rest      == SearchResults(Tail(indicators), searchTerm, caseInsensitive)
    IN  IF ~read.ok
          THEN rest
          ELSE IF ContentHasTerm(read.text, searchTerm, caseInsensitive)
            THEN << [ file    |-> indicator,
                      matches |-> SearchMatches(read.text, searchTerm,
                                                caseInsensitive) ] >> \o rest
            ELSE rest

(***************************************************************************)
(* extract_functions (four-tool server).                                   *)
(***************************************************************************)
Lookahead == 50

\* let functionEnd = i; let braceCount = 0; let inFunction = false;
ScanStart(i) ==
  [ functionEnd |-> i, braceCount |-> 0, inFunction |-> FALSE, done |-> FALSE ]

\* One iteration of the inner loop without its break.
ScanStepNoBreak(currentLine, j, st) ==
  LET open   == Includes(currentLine, << "{" >>)
      close  == Includes(currentLine, << "}" >>)
      count1 == IF open THEN st.braceCount + 1 ELSE st.braceCount
      inFn   == st.inFunction \/ open
      count2 == IF close THEN count1 - 1 ELSE count1
      found  == close /\ count2 = 0 /\ inFn
  IN  [ functionEnd |-> IF found THEN j ELSE st.functionEnd,
        braceCount  |-> count2,
        inFunction  |-> inFn,
        done        |-> FALSE ]

\* One iteration of the inner loop on lines[j]; done is the break.
ScanStep(currentLine, j, st) ==
  LET open   == Includes(currentLine, << "{" >>)
      close  == Includes(currentLine, << "}" >>)
      count1 == IF open THEN st.braceCount + 1 ELSE st.braceCount
      inFn   == st.inFunction \/ open
      count2 == IF close THEN count1 - 1 ELSE count1
      found  == close /\ count2 = 0 /\ inFn
  IN  [ functionEnd |-> IF found THEN j ELSE st.functionEnd,
        braceCount  |-> count2,
        inFunction  |-> inFn,
        done        |-> found ]

\* The last line of the window of the candidate at line i (lines counted
\* from 1):  j < Math.min(i + 50, lines.length)
WindowEnd(lines, i) == Min(i + Lookahead - 1, Len(lines))

RECURSIVE ScanUpTo(_, _, _)
\* The loop variables after the iterations on lines i..j, or at the break.
ScanUpTo(lines, i, j) ==
  IF j < i THEN ScanStart(i)
  ELSE LET prev == ScanUpTo(lines, i, j - 1)
       IN  IF prev.done THEN prev ELSE ScanStep(lines[j], j, prev)

\* functionEnd when the inner loop is over.
FunctionEnd(lines, i) == ScanUpTo(lines, i, WindowEnd(lines, i)).functionEnd

\* The span with endLine left zero-based.
SpanOfZeroBasedEnd(lines, i) ==
  [ name      |-> FunctionName(Trim(lines[i])),
    startLine |-> i,
    endLine   |-> FunctionEnd(lines, i) - 1,
    code      |-> Join(SubSeq(lines, i, FunctionEnd(lines, i)), "\n") ]

\* { name, startLine: functionStart + 1, endLine: functionEnd + 1, code }
SpanOf(lines, i) ==
  [ name      |-> FunctionName(Trim(lines[i])),
    startLine |-> i,
    endLine   |-> FunctionEnd(lines, i),
    code      |-> Join(SubSeq(lines, i, FunctionEnd(lines, i)), "\n") ]

RECURSIVE SpansFromSkipNested(_, _)
\* The outer loop resuming after the span it has just pushed.
SpansFromSkipNested(lines, i) ==
  IF i > Len(lines) THEN << >>
  ELSE IF MatchesFunction(Trim(lines[i])) /\ Len(SpanOf(lines, i).code) > 0
    THEN << SpanOf(lines, i) >>
         \o SpansFromSkipNested(lines, SpanOf(lines, i).endLine + 1)
    ELSE SpansFromSkipNested(lines, i + 1)

ExtractSpansSkipNested(content) ==
  SpansFromSkipNested(Split(content, "\n"), 1)

\* for (let i = 0; i < lines.length; i++) { if (match) { ...; push } }
ExtractSpans(content) ==
  LET lines   == Split(content, "\n")
      Push(i) == /\ MatchesFunction(Trim(lines[i]))
                 /\ Len(SpanOf(lines, i).code) > 0
      starts  == SelectSeq([ i \in 1..Len(lines) |-> i ], Push)
  IN  [ k \in 1..Len(starts) |-> SpanOf(lines, starts[k]) ]

(***************************************************************************)
(* The call-tool handlers.  The body of a case either completes with the   *)
(* values its text is rendered from, or throws.                            *)
(***************************************************************************)
Done(body) == [ threw |-> FALSE, message |-> "", body |-> body ]

Throws(message) == [ threw |-> TRUE, message |-> message, body |-> << >> ]

\* case "list_indicators" of the four-tool server
ListIndicatorsCase(args) ==
  IF ~ParsesList(args) THEN Throws("ZodError")
  ELSE LET listed == getIndicatorFiles(args.pattern)
       IN  IF listed.ok THEN Done(listed.files)
           ELSE Throws("Failed to read directory")

\* case "analyze_indicator" of the four-tool server
AnalyzeIndicatorCase(args) ==
  IF ~ParsesIndicatorName(args) THEN Throws("ZodError")
  ELSE LET read == readIndicatorFile(args.indicatorName.str)
       IN  IF read.ok THEN Done(analyzeIndicatorCode(read.text))
           ELSE Throws("Failed to read indicator file")

\* case "search_indicators" of the four-tool server
SearchIndicatorsCase(args) ==
  IF ~ParsesSearch(args) THEN Throws("ZodError")
  ELSE LET listed == getIndicatorFiles(Undefined)
       IN  IF listed.ok
             THEN Done(SearchResults(listed.files, args.searchTerm.str,
                                     CaseInsensitiveOf(args)))
             ELSE Throws("Failed to read directory")

\* case "extract_functions" of the four-tool server
ExtractFunctionsCase(args) ==
  IF ~ParsesIndicatorName(args) THEN Throws("ZodError")
  ELSE LET read == readIndicatorFile(args.indicatorName.str)
       IN  IF read.ok THEN Done(ExtractSpans(read.text))
           ELSE Throws("Failed to read indicator file")

\* try { switch ... } catch (error) { return { ..., isError: true } }
CatchAll(tool, outcome) ==
  IF outcome.threw
    THEN Returned(tool, TRUE, outcome.message)
    ELSE Returned(tool, FALSE, outcome.body)

\* The two-tool server has no catch around its switch.
NoCatch(tool, outcome) ==
  IF outcome.threw
    THEN Threw(tool, outcome.message)
    ELSE Returned(tool, FALSE, outcome.body)

\* case "list_indicators" of the two-tool server
SimpleListIndicatorsCase(args) ==
  IF ~ParsesList(args) THEN Throws("ZodError")
  ELSE Done(getIndicatorFilesSimple(args.pattern))

SimpleFunctionCap == 5

SimplePlotCap == 3

\* The analysis of the two-tool server, inside its own try.
SimpleAnalysis(content) ==
  LET lines       == Split(content, "\n")
      IsFn(line)  == MatchesFunction(Trim(line))
      IsPl(line)  == Includes(line, PlotOpen)
      IsIn(line)  == Includes(line, << "i", "n", "p", "u", "t" >>)
      functions   == SelectSeq(lines, IsFn)
      plots       == SelectSeq(lines, IsPl)
      keyFns      == SliceFirst(functions, SimpleFunctionCap)
      plotCmds    == SliceFirst(plots, SimplePlotCap)
  IN  [ lines        |-> Len(lines),
        functions    |-> Len(functions),
        plots        |-> Len(plots),
        inputs       |-> Len(SelectSeq(lines, IsIn)),
        keyFunctions |-> [ i \in 1..Len(keyFns) |-> FunctionName(Trim(keyFns[i])) ],
        plotCommands |-> [ i \in 1..Len(plotCmds) |-> Trim(plotCmds[i]) ] ]

Pending(srv, tools) ==
  /\ server = srv
  /\ request.name # ""
  /\ response = NoResponse
  /\ request.name \in tools

Reply(r) ==
  /\ response' = r
  /\ UNCHANGED << server, dirOk, dir, disk, request >>

FullTools ==
  { "list_indicators", "analyze_indicator", "search_indicators",
    "extract_functions" }

SimpleTools == { "list_indicators", "analyze_indicator" }

ToolNames == FullTools \cup { "delete_indicator" }

ListIndicators ==
  /\ Pending("full", { "list_indicators" })
  /\ Reply(CatchAll(request.name, ListIndicatorsCase(request.args)))

AnalyzeIndicator ==
  /\ Pending("full", { "analyze_indicator" })
  /\ Reply(CatchAll(request.name, AnalyzeIndicatorCase(request.args)))

SearchIndicators ==
  /\ Pending("full", { "search_indicators" })
  /\ Reply(CatchAll(request.name, SearchIndicatorsCase(request.args)))

ExtractFunctions ==
  /\ Pending("full", { "extract_functions" })
  /\ Reply(CatchAll(request.name, ExtractFunctionsCase(request.args)))

\* default: throw new Error(`Unknown tool: ${name}`), inside the try
UnknownTool ==
  /\ Pending("full", ToolNames \ FullTools)
  /\ Reply(CatchAll(request.name, Throws("Unknown tool")))

SimpleListIndicators ==
  /\ Pending("simple", { "list_indicators" })
  /\ Reply(NoCatch(request.name, SimpleListIndicatorsCase(request.args)))

\* The parse is outside the try; the read and the analysis are inside it.
SimpleAnalyzeIndicator ==
  /\ Pending("simple", { "analyze_indicator" })
  /\ IF ~ParsesIndicatorName(request.args)
       THEN Reply(Threw(request.name, "ZodError"))
       ELSE LET read == readFileSync(request.args.indicatorName.str)
            IN  IF read.ok
                  THEN Reply(Returned(request.name, FALSE,
                                      SimpleAnalysis(read.text)))
                  ELSE Reply(Returned(request.name, TRUE,
                                      "Error reading file"))

\* default: throw new Error(`Unknown tool: ${name}`), with no try around it
SimpleUnknownTool ==
  /\ Pending("simple", ToolNames \ SimpleTools)
  /\ Reply(Threw(request.name, "Unknown tool"))

\* The client sends the next call once the last one is answered.
CallTool(names, argsSet) ==
  /\ request.name = "" \/ response # NoResponse
  /\ \E n \in names, a \in argsSet :
       request' = [ name |-> n, args |-> a ]
  /\ response' = NoResponse
  /\ UNCHANGED << server, dirOk, dir, disk >>

(***************************************************************************)
(* Inputs.                                                                 *)
(***************************************************************************)
Rsi == << "r", "s", "i" >>

Macd == << "m", "a", "c", "d" >>

\* The arguments object with the given keys set.
Args(pattern, indicatorName, searchTerm, caseInsensitive) ==
  [ isObject |-> TRUE, pattern |-> pattern, indicatorName |-> indicatorName,
    searchTerm |-> searchTerm, caseInsensitive |-> caseInsensitive ]

File(text) == [ readable |-> TRUE, text |-> text ]

Unreadable == [ readable |-> FALSE, text |-> << >> ]

\* n repetitions of the lines of block, in order.
Repeat(block, n) ==
  [ k \in 1..(n * Len(block)) |-> block[((k - 1) % Len(block)) + 1] ]

Blank(n) == [ k \in 1..n |-> << >> ]

\* One file on disk, listed by the directory, and no call yet.
OneFile(name, text) ==
  /\ server = "full"
  /\ dirOk = TRUE
  /\ dir = << name >>
  /\ disk = [ f \in { name } |-> File(text) ]
  /\ request = NoRequest
  /\ response = NoResponse

(***************************************************************************)
(* analyze_indicator on files whose counts cross the thresholds and caps.  *)
(***************************************************************************)
MaxRepeat == 21

MaxPlotRepeat == 6

PadSlack == 1

AnalyzeBlocks ==
  { << << "f", "(" >>, << "g", " ", "(" >>, << "h", "(", "x", ")" >> >>,
    << << "a", "=", "1" >>, << "v", "a", "r", " ", "b", "=" >>,
       << "c", " ", "=", "2" >> >>,
    << << "x", "=", "i", "n", "p", "u", "t", "(" >>,
       << "i", "n", "p", "u", "t", "." >> >>,
    << << "a", "l", "e", "r", "t", "(" >>,
       << " ", "1", "a", "l", "e", "r", "t", "(" >> >>,
    << << "p", "l", "o", "t", "(" >>,
       << "1", "p", "l", "o", "t", "c", "h", "a", "r", "(" >> >> }

PlotBlock == << << "1", "p", "l", "o", "t", "(" >> >>

PadChoices ==
  { 0 } \cup { MediumLines + 1 - d : d \in 0..PadSlack }
        \cup { HighLines + 1 - d : d \in 0..PadSlack }

AnalyzeTexts ==
  { Join(Repeat(block, n) \o Repeat(PlotBlock, p) \o Blank(pad), "\n") :
      block \in AnalyzeBlocks, n \in 0..MaxRepeat, p \in 0..MaxPlotRepeat,
      pad \in PadChoices }

InitAnalyze == \E text \in AnalyzeTexts : OneFile(Rsi, text)

AnalyzeArgs ==
  { Args(Undefined, Str(Rsi), Undefined, Undefined),
    Args(Undefined, Undefined, Undefined, Undefined) }

CallAnalyze == CallTool({ "analyze_indicator" }, AnalyzeArgs)

NextAnalyze == CallAnalyze \/ AnalyzeIndicator

SpecAnalyze == InitAnalyze /\ [][NextAnalyze]_vars

(***************************************************************************)
(* What a claim reads off a state: the answered call and the file it read. *)
(***************************************************************************)
Answered(tool) ==
  /\ response.kind = "returned"
  /\ response.tool = tool
  /\ ~response.isError

\* The text of the file the answered call named.
NamedText == disk[request.args.indicatorName.str].text

\* The number of lines split('\n') yields: one more than the newlines.
LineTotal(text) == Cardinality({ i \in 1..Len(text) : text[i] = "\n" }) + 1

\* The numbers of the lines of text whose trimmed form passes Test.
HitLines(text, Test(_)) ==
  LET lines == Split(text, "\n")
  IN  { i \in 1..Len(lines) : Test(Trim(lines[i])) }

\* list holds Show of the first cap lines of text that pass Test, in file
\* order, and nothing else.
IsFirstMatches(list, cap, text, Test(_), Show(_)) ==
  LET lines == Split(text, "\n")
      hits  == HitLines(text, Test)
      n     == IF Cardinality(hits) < cap THEN Cardinality(hits) ELSE cap
  IN  /\ Len(list) = n
      /\ \A k \in 1..n :
           \E i \in hits :
             /\ Cardinality({ j \in hits : j < i }) = k - 1
             /\ list[k] = Show(Trim(lines[i]))

Same(x) == x

TierRank(tier) ==
  CASE tier = "Low" -> 0 [] tier = "Medium" -> 1 [] tier = "High" -> 2

\* C4: the tier analyze_indicator reports is High exactly when the file has
\* more than 300 lines or more than 20 function lines or more than 5 plot
\* lines, otherwise Medium exactly when it has more than 100 lines or more
\* than 10 function lines, otherwise Low, all counts taken over the whole
\* file; and one more line, function or plot never lowers the tier.
TierFromFullCounts ==
  Answered("analyze_indicator") =>
    LET l == LineTotal(NamedText)
        f == Cardinality(HitLines(NamedText, MatchesFunction))
        p == Cardinality(HitLines(NamedText, IsPlot))
        tier == response.body.complexity
    IN  /\ tier = IF l > 300 \/ f > 20 \/ p > 5 THEN "High"
                  ELSE IF l > 100 \/ f > 10 THEN "Medium"
                  ELSE "Low"
        /\ response.body.lineCount = l
        /\ TierRank(Complexity(l + 1, f, p)) >= TierRank(tier)
        /\ TierRank(Complexity(l, f + 1, p)) >= TierRank(tier)
        /\ TierRank(Complexity(l, f, p + 1)) >= TierRank(tier)

\* A short file with more than 10 function lines: the list is cut to 10 and
\* the tier is Medium all the same.
TierSeesDroppedFunctions ==
  /\ Answered("analyze_indicator")
  /\ LineTotal(NamedText) <= 100
  /\ Cardinality(HitLines(NamedText, MatchesFunction)) > 10
  /\ Len(response.body.functions) = 10
  /\ response.body.complexity = "Medium"

\* C5: the lists analyze_indicator returns hold at most 10 functions, 15
\* variables, 10 plots, 10 inputs and 5 alerts, each the first matches of
\* its category in file order.
ListsAreCappedPrefixes ==
  Answered("analyze_indicator") =>
    /\ Len(response.body.functions) <= 10
    /\ Len(response.body.variables) <= 15
    /\ Len(response.body.plots) <= 10
    /\ Len(response.body.inputs) <= 10
    /\ Len(response.body.alerts) <= 5
    /\ IsFirstMatches(response.body.functions, 10, NamedText,
                      MatchesFunction, FunctionName)
    /\ IsFirstMatches(response.body.variables, 15, NamedText,
                      MatchesVariable, VariableName)
    /\ IsFirstMatches(response.body.plots, 10, NamedText, IsPlot, Same)
    /\ IsFirstMatches(response.body.inputs, 10, NamedText, IsInput, Same)
    /\ IsFirstMatches(response.body.alerts, 5, NamedText, IsAlert, Same)

\* A file with more plot lines than the cap, the first plot line differing
\* from the first one past the cap.
PlotsWereDropped ==
  /\ Answered("analyze_indicator")
  /\ Cardinality(HitLines(NamedText, IsPlot)) > 10
  /\ Len(response.body.plots) = 10
  /\ Cardinality(HitLines(NamedText, MatchesVariable)) = 0
  /\ response.body.plots[1] # response.body.plots[2]

(***************************************************************************)
(* extract_functions on brace patterns and on files longer than the        *)
(* lookahead window.                                                       *)
(***************************************************************************)
MaxLines == 4

EdgeLines == 1

WindowSlack == 3

\* Every sequence over pool of length at most n.
UpTo(pool, n) == UNION { [ 1..k -> pool ] : k \in 0..n }

BraceLines ==
  { << "f", "(", ")" >>, << "f", "(", ")", "{" >>, << "{" >>, << "}" >>,
    << "{", "{" >>, << "{", "}" >>, << >> }

EdgePool ==
  { << "f", "(", ")" >>, << "f", "(", ")", "{" >>, << "{" >>, << "}" >> }

ShortTexts == { Join(lines, "\n") : lines \in UpTo(BraceLines, MaxLines) }

LongTexts ==
  { Join(head \o Blank(Lookahead - d) \o tail, "\n") :
      head \in UpTo(EdgePool, EdgeLines), tail \in UpTo(EdgePool, EdgeLines),
      d \in 0..WindowSlack }

InitExtract == \E text \in ShortTexts \cup LongTexts : OneFile(Rsi, text)

CallExtract == CallTool({ "extract_functions" }, AnalyzeArgs)

NextExtract == CallExtract \/ ExtractFunctions

SpecExtract == InitExtract /\ [][NextExtract]_vars

NamedLines == Split(NamedText, "\n")

HasOpen(line) == \E i \in 1..Len(line) : line[i] = "{"

HasClose(line) == \E i \in 1..Len(line) : line[i] = "}"

\* The handler's running count after lines i..j: one up for each line with
\* a '{', one down for each line with a '}'.
RunningCount(lines, i, j) ==
  Cardinality({ l \in i..j : HasOpen(lines[l]) })
    - Cardinality({ l \in i..j : HasClose(lines[l]) })

\* After line j the count is zero and a '{' has been seen since line i.
BalancedAt(lines, i, j) ==
  /\ \E l \in i..j : HasOpen(lines[l])
  /\ RunningCount(lines, i, j) = 0

\* The lines the scan from line i may read: i..i+49, clipped to the file.
Window(lines, i) ==
  { j \in i..(i + 49) : j <= Len(lines) }

\* C3: every span extract_functions returns has startLine <= endLine, and
\* on a file without any brace every span has endLine = startLine.
SpanEndNotBeforeStart ==
  Answered("extract_functions") =>
    \A k \in 1..Len(response.body) :
      /\ response.body[k].startLine <= response.body[k].endLine
      /\ (~HasOpen(NamedText) /\ ~HasClose(NamedText))
           => response.body[k].endLine = response.body[k].startLine

\* A file without braces whose second line is a function line.
BracelessSpanBelowTop ==
  /\ Answered("extract_functions")
  /\ ~HasOpen(NamedText) /\ ~HasClose(NamedText)
  /\ \E k \in 1..Len(response.body) : response.body[k].startLine = 2

\* C8 as stated: the span of the candidate at line i ends at the first line
\* j of the window after which the running count is zero and a '{' has been
\* seen, and at the start line when there is no such line.
SpanEndsWhereCountIsZero ==
  Answered("extract_functions") =>
    \A k \in 1..Len(response.body) :
      LET i    == response.body[k].startLine
          ends == { j \in Window(NamedLines, i) : BalancedAt(NamedLines, i, j) }
      IN  response.body[k].endLine =
            IF ends = {} THEN i
            ELSE CHOOSE j \in ends : \A j2 \in ends : j <= j2

\* C8 amended: the same, with the end line required to contain a '}'.
SpanEndsAtClosingLine ==
  Answered("extract_functions") =>
    \A k \in 1..Len(response.body) :
      LET i    == response.body[k].startLine
          ends == { j \in Window(NamedLines, i) :
                      HasClose(NamedLines[j]) /\ BalancedAt(NamedLines, i, j) }
      IN  response.body[k].endLine =
            IF ends = {} THEN i
            ELSE CHOOSE j \in ends : \A j2 \in ends : j <= j2

\* A span that stays at its start line although the line just past its
\* window would close it.
ClosingLineJustPastWindow ==
  /\ Answered("extract_functions")
  /\ \E k \in 1..Len(response.body) :
       LET i == response.body[k].startLine
       IN  /\ i + 50 <= Len(NamedLines)
           /\ HasClose(NamedLines[i + 50])
           /\ BalancedAt(NamedLines, i, i + 50)
           /\ response.body[k].endLine = i

CharCount(line, c) == Cardinality({ i \in 1..Len(line) : line[i] = c })

\* C9: while the scan from a function line runs, each line changes the
\* running brace count by its number of '{' minus its number of '}'.
CountMovesByEveryBrace ==
  Answered("extract_functions") =>
    \A k \in 1..Len(response.body) :
      LET i == response.body[k].startLine
      IN  \A j \in Window(NamedLines, i) :
            ~ScanUpTo(NamedLines, i, j - 1).done =>
              ScanUpTo(NamedLines, i, j).braceCount
                - ScanUpTo(NamedLines, i, j - 1).braceCount
              = CharCount(NamedLines[j], "{") - CharCount(NamedLines[j], "}")

\* C10: extract_functions returns one span for each function line, in
\* strictly increasing startLine order, also for a function line inside the
\* span of an earlier one.
OneSpanPerFunctionLine ==
  Answered("extract_functions") =>
    /\ { response.body[k].startLine : k \in 1..Len(response.body) }
         = HitLines(NamedText, MatchesFunction)
    /\ \A k \in 1..(Len(response.body) - 1) :
         response.body[k].startLine < response.body[k + 1].startLine

\* A function line inside the span of an earlier function line, both
\* returned.
NestedSpanReturned ==
  /\ Answered("extract_functions")
  /\ Len(response.body) >= 2
  /\ response.body[2].startLine <= response.body[1].endLine

(***************************************************************************)
(* The Function pattern on every short text: analyze_indicator and         *)
(* extract_functions on all texts over a few characters.                   *)
(***************************************************************************)
MaxText == 5

ClassifyChars == { "f", "1", " ", "(", "\n" }

InitClassify == \E text \in UpTo(ClassifyChars, MaxText) : OneFile(Rsi, text)

CallClassify ==
  CallTool({ "analyze_indicator", "extract_functions" },
           { Args(Undefined, Str(Rsi), Undefined, Undefined) })

NextClassify == CallClassify \/ AnalyzeIndicator \/ ExtractFunctions

SpecClassify == InitClassify /\ [][NextClassify]_vars

\* The position of the first '(' of t, or 0.
FirstParen(t) ==
  IF \E i \in 1..Len(t) : t[i] = "("
    THEN CHOOSE i \in 1..Len(t) : t[i] = "(" /\ \A j \in 1..(i - 1) : t[j] # "("
    ELSE 0

\* t is an identifier and then, with nothing in between, its first '('.
IdentifierThenParen(t) ==
  /\ FirstParen(t) > 1
  /\ IsIdStart(t[1])
  /\ \A i \in 2..(FirstParen(t) - 1) : IsIdChar(t[i])

\* t is an identifier, then whitespace or nothing, then its first '('.
IdentifierSpaceParen(t) ==
  /\ FirstParen(t) > 1
  /\ IsIdStart(t[1])
  /\ \E k \in 1..(FirstParen(t) - 1) :
       /\ \A i \in 2..k : IsIdChar(t[i])
       /\ \A i \in (k + 1)..(FirstParen(t) - 1) : IsSpace(t[i])

NameBeforeParen(t) == SubSeq(t, 1, FirstParen(t) - 1)

\* The functions both tools report are the lines passing Test, each under
\* the text before its first '('.
FunctionLinesAre(Test(_)) ==
  /\ Answered("analyze_indicator") =>
       IsFirstMatches(response.body.functions, 10, NamedText, Test,
                      NameBeforeParen)
  /\ Answered("extract_functions") =>
       /\ { response.body[k].startLine : k \in 1..Len(response.body) }
            = HitLines(NamedText, Test)
       /\ \A k \in 1..Len(response.body) :
            response.body[k].name
              = NameBeforeParen(Trim(NamedLines[response.body[k].startLine]))

\* C7 as stated: a line is a Function line exactly when its trimmed form
\* starts with an identifier immediately followed by '(', and its name is
\* the trimmed text before the first '('.
FunctionIffIdentifierThenParen == FunctionLinesAre(IdentifierThenParen)

\* C7 amended: whitespace may stand between the identifier and the '('.
FunctionIffIdentifierSpaceParen == FunctionLinesAre(IdentifierSpaceParen)

\* A function reported under a name that ends in whitespace.
FunctionNameEndsInSpace ==
  /\ Answered("analyze_indicator")
  /\ Len(response.body.functions) = 1
  /\ LET name == response.body.functions[1]
     IN  Len(name) > 1 /\ IsSpace(name[Len(name)])

(***************************************************************************)
(* search_indicators over directories of a few files, readable or not.     *)
(***************************************************************************)
MaxFiles == 3

Ema == << "e", "m", "a" >>

HelperJs == << "a", ".", "j", "s" >>

FileNames == { Rsi, Macd, Ema, HelperJs }

SearchTexts ==
  { << "A", "\n", "a", "\n", "x", "a", "\n", "a" >>,
    << " ", "a", "\n", "b" >>,
    << "b" >> }

SearchTerms == { << "a" >>, << " ", "a" >>, << "\n" >>, << >> }

\* The listings readdirSync may return: no name twice.
Listings ==
  { l \in UpTo(FileNames, MaxFiles) :
      \A i, j \in 1..Len(l) : i # j => l[i] # l[j] }

\* A directory that cannot be read lists nothing.
InitSearch ==
  /\ server = "full"
  /\ dirOk \in BOOLEAN
  /\ dir \in IF dirOk THEN Listings ELSE { << >> }
  /\ disk \in [ Range(dir) -> { File(t) : t \in SearchTexts } \cup { Unreadable } ]
  /\ request = NoRequest
  /\ response = NoResponse

SearchArgs ==
  { Args(Undefined, Undefined, Str(t), c) :
      t \in SearchTerms, c \in { Undefined, Bool(FALSE) } }
    \cup { Args(Undefined, Undefined, Undefined, Undefined) }

CallSearch == CallTool({ "search_indicators" }, SearchArgs)

NextSearch == CallSearch \/ SearchIndicators

SpecSearch == InitSearch /\ [][NextSearch]_vars

\* The files search_indicators enumerates, in order.
Enumerated == getIndicatorFiles(Undefined).files

ResultFiles == [ k \in 1..Len(response.body) |-> response.body[k].file ]

\* The place of a file in the enumeration.
PlaceOf(file) == CHOOSE i \in 1..Len(Enumerated) : Enumerated[i] = file

\* C1: every file entry search_indicators returns carries between 1 and 3
\* matched lines.
EveryEntryHasOneToThreeMatches ==
  Answered("search_indicators") =>
    \A k \in 1..Len(response.body) :
      /\ Len(response.body[k].matches) >= 1
      /\ Len(response.body[k].matches) <= 3

\* C6: a file that cannot be read is skipped without an error response,
\* every readable file holding the term is still reported, and the reported
\* files keep the order of the enumeration.
UnreadableFilesAreSkipped ==
  (response.kind # "none" /\ ParsesSearch(request.args) /\ dirOk) =>
    /\ Answered("search_indicators")
    /\ \A k \in 1..Len(ResultFiles) :
         /\ \E i \in 1..Len(Enumerated) : Enumerated[i] = ResultFiles[k]
         /\ disk[ResultFiles[k]].readable
    /\ \A i \in 1..Len(Enumerated) :
         ( /\ disk[Enumerated[i]].readable
           /\ ContentHasTerm(disk[Enumerated[i]].text,
                             request.args.searchTerm.str,
                             CaseInsensitiveOf(request.args)) )
           => \E k \in 1..Len(ResultFiles) : ResultFiles[k] = Enumerated[i]
    /\ \A k \in 1..(Len(ResultFiles) - 1) :
         PlaceOf(ResultFiles[k]) < PlaceOf(ResultFiles[k + 1])

\* An unreadable file enumerated first, and two later files reported.
ScanWentOnPastUnreadableFile ==
  /\ Answered("search_indicators")
  /\ Len(Enumerated) = 3
  /\ ~disk[Enumerated[1]].readable
  /\ ResultFiles = << Enumerated[2], Enumerated[3] >>

(***************************************************************************)
(* Both servers under every kind of call.                                  *)
(***************************************************************************)
InitDispatch ==
  /\ server \in { "simple", "full" }
  /\ dirOk \in BOOLEAN
  /\ dir = << Rsi >>
  /\ disk \in [ { Rsi } -> { File(<< "f", "(", "\n", "p", "l", "o", "t", "(" >>),
                             Unreadable } ]
  /\ request = NoRequest
  /\ response = NoResponse

DispatchArgs ==
  { Args(Undefined, Str(Rsi), Str(<< "f" >>), Undefined),
    Args(Str(<< "R" >>), Str(Macd), Str(<< "f" >>), Bool(FALSE)),
    Args(NumberValue, NumberValue, NumberValue, NumberValue),
    NoArgs }

CallAny == CallTool(ToolNames, DispatchArgs)

NextDispatch ==
  \/ CallAny
  \/ ListIndicators
  \/ AnalyzeIndicator
  \/ SearchIndicators
  \/ ExtractFunctions
  \/ UnknownTool
  \/ SimpleListIndicators
  \/ SimpleAnalyzeIndicator
  \/ SimpleUnknownTool

SpecDispatch == InitDispatch /\ [][NextDispatch]_vars

\* The call cannot be carried out: its tool is unknown to the server, its
\* arguments fail the tool's schema, or the file it names cannot be read.
CallFails ==
  LET tools == IF server = "full" THEN FullTools ELSE SimpleTools
  IN  \/ request.name \notin tools
      \/ request.name = "list_indicators" /\ ~ParsesList(request.args)
      \/ request.name = "search_indicators" /\ ~ParsesSearch(request.args)
      \/ /\ request.name \in { "analyze_indicator", "extract_functions" }
         /\ \/ ~ParsesIndicatorName(request.args)
            \/ ~readFileSync(request.args.indicatorName.str).ok

\* C2: every call is answered by a returned response, flagged as an error
\* when the call fails, and no error leaves the handler.
EveryCallReturnsAResponse ==
  response.kind # "none" =>
    /\ response.kind = "returned"
    /\ CallFails => response.isError

====
